---- MODULE Spec2Model ----
(***************************************************************************)
(* A model of lib/ansible/plugins/connection/ssh.py: the retry wrapper     *)
(* exec_command, the file transfers put_file and fetch_file, the command   *)
(* builder _build_command and the run loop _run with its line              *)
(* classification _examine_output.                                         *)
(*                                                                         *)
(* The child process is the environment: it writes bytes to its stdout and *)
(* stderr, closes them, and exits with a code, in any order.  A byte is    *)
(* one of the tokens of Byte; what a pipe has carried so far is kept in    *)
(* pipe[f].sent, and the accumulators stdout, stderr, tmp_stdout and       *)
(* tmp_stderr of _run hold POSITIONS of pipe[f].sent (the byte at position *)
(* i of stream f is pipe[f].sent[i]), so that a dropped, duplicated or     *)
(* reordered byte is visible.  Bytes(f, s) is the byte string of s.        *)
(***************************************************************************)
EXTENDS Integers, Sequences, FiniteSets, TLC

\* Bounds of the model.
MaxBytes == 2
MaxRetries == 2
MaxBackoffRetries == 7
MaxBuilds == 2

\* ---------------------------------------------------------------- values

Streams == {"stdout", "stderr"}

\* The bytes a child writes.  "n" is the newline; "P" is the text of the
\* configured password prompt, "S" the success marker, "E" the become
\* method's incorrect-password message, "M" its missing-password message,
\* "C" the text "Bad configuration option: ControlPersist", "x" any other
\* byte.
Byte == {"P", "S", "E", "M", "C", "x", "n"}

\* Exit codes of the child: 0, a remote status (1 stands for 1..254 other
\* than 6), sshpass's host-key code 6, and ssh's own failure 255.
ExitCodes == {0, 1, 6, 255}

states == <<"awaiting_prompt", "awaiting_escalation", "ready_to_send", "awaiting_exit">>

\* states.index(name), counted from 0 as in the source.
states_index(name) == (CHOOSE i \in 1..Len(states) : states[i] = name) - 1

NoFlags ==
  [become_prompt |-> FALSE, become_success |-> FALSE,
   become_error |-> FALSE, become_nopasswd_error |-> FALSE]


VARIABLES
  C,                 \* the global configuration (ansible.constants)
  play_context,      \* self._play_context
  self,              \* ssh_args, ssh_extra_args of the connection
  api,               \* the call: its name and arguments
  SSHPASS_AVAILABLE, \* the module-level memo: "None", "True" or "False"
  pc,                \* where the call is
  attempt,           \* exec_command: the loop variable
  return_tuple,      \* exec_command: the local of that name
  pauses,            \* exec_command: the seconds slept, in order
  calls,             \* exec_command: number of _exec_command calls made
  cmd, in_data, sudoable,     \* the arguments of _run
  state, flags,               \* _run: the state index, self._flags
  stdout, stderr, tmp_stdout, tmp_stderr,
  rpipes, timeout,            \* _run: the pipe set, the select timeout
  stdin,             \* the parent's handle on the child's stdin
  p,                 \* the child process (Popen object); exited: poll() is not None
  pipe,              \* the child's stdout and stderr pipes
  sshpass_pipe,      \* self.sshpass_pipe and the parent's open descriptors
  outcome,           \* how the last _run / _exec_command ended
  result,            \* how the call ended
  hist               \* history: what the claims measure

vars ==
  <<C, play_context, self, api, SSHPASS_AVAILABLE, pc, attempt, return_tuple,
    pauses, calls, cmd, in_data, sudoable, state, flags, stdout, stderr,
    tmp_stdout, tmp_stderr, rpipes, timeout, stdin, p, pipe, sshpass_pipe,
    outcome, result, hist>>

\* ------------------------------------------------- the become predicates
\* ConnectionBase supplies them; they take the text of one line.

\* The bytes at the positions s of stream f.
Bytes(f, s) == [i \in 1..Len(s) |-> pipe[f].sent[s[i]]]

\* output.startswith(prompt)
check_password_prompt(l) == Len(l) > 0 /\ l[1] = "P"

RECURSIVE rstrip(_)
rstrip(l) ==
  IF l # <<>> /\ l[Len(l)] = "n" THEN rstrip(SubSeq(l, 1, Len(l) - 1)) ELSE l

\* success_key == output.rstrip()
check_become_success(l) == rstrip(l) = <<"S">>

\* incorrect_password in output
check_incorrect_password(l) == \E i \in 1..Len(l) : l[i] = "E"

\* missing_password in output
check_missing_password(l) == \E i \in 1..Len(l) : l[i] = "M"

\* ---------------------------------------------------- _examine_output

\* chunk.splitlines(True): the lines of chunk, each with its newline; the last
\* one has none when chunk does not end with a newline.
RECURSIVE splitlines(_, _)
splitlines(f, chunk) ==
  IF chunk = <<>> THEN <<>>
  ELSE LET nl == {i \in 1..Len(chunk) : pipe[f].sent[chunk[i]] = "n"}
       IN IF nl = {} THEN <<chunk>>
          ELSE LET i == CHOOSE j \in nl : \A k \in nl : j <= k
               IN <<SubSeq(chunk, 1, i)>> \o splitlines(f, SubSeq(chunk, i + 1, Len(chunk)))

endswith_newline(f, l) == l # <<>> /\ pipe[f].sent[l[Len(l)]] = "n"

\* The body of the for loop over the lines, for one line l: the flag it
\* raises ("none" when it raises none) and whether it is suppressed.
ClassifyIgnoreSudoable(f, l, sud) ==
  LET t == Bytes(f, l)
  IN IF play_context.prompt /\ check_password_prompt(t)
       THEN [flag |-> "become_prompt", suppress_output |-> TRUE]
     ELSE IF play_context.success_key /\ check_become_success(t)
       THEN [flag |-> "become_success", suppress_output |-> TRUE]
     ELSE IF check_incorrect_password(t)
       THEN [flag |-> "become_error", suppress_output |-> FALSE]
     ELSE IF check_missing_password(t)
       THEN [flag |-> "become_nopasswd_error", suppress_output |-> FALSE]
     ELSE [flag |-> "none", suppress_output |-> FALSE]

ClassifyCompleteOnly(f, l, sud) ==
  LET t == Bytes(f, l)
  IN IF ~endswith_newline(f, l)
       THEN [flag |-> "none", suppress_output |-> FALSE]
     ELSE IF play_context.prompt /\ check_password_prompt(t)
       THEN [flag |-> "become_prompt", suppress_output |-> TRUE]
     ELSE IF play_context.success_key /\ check_become_success(t)
       THEN [flag |-> "become_success", suppress_output |-> TRUE]
     ELSE IF sud /\ check_incorrect_password(t)
       THEN [flag |-> "become_error", suppress_output |-> FALSE]
     ELSE IF sud /\ check_missing_password(t)
       THEN [flag |-> "become_nopasswd_error", suppress_output |-> FALSE]
     ELSE [flag |-> "none", suppress_output |-> FALSE]

ClassifyKeepSuccess(f, l, sud) ==
  LET t == Bytes(f, l)
  IN IF play_context.prompt /\ check_password_prompt(t)
       THEN [flag |-> "become_prompt", suppress_output |-> TRUE]
     ELSE IF play_context.success_key /\ check_become_success(t)
       THEN [flag |-> "become_success", suppress_output |-> FALSE]
     ELSE IF sud /\ check_incorrect_password(t)
       THEN [flag |-> "become_error", suppress_output |-> FALSE]
     ELSE IF sud /\ check_missing_password(t)
       THEN [flag |-> "become_nopasswd_error", suppress_output |-> FALSE]
     ELSE [flag |-> "none", suppress_output |-> FALSE]

Classify(f, l, sud) ==
  LET t == Bytes(f, l)
  IN IF play_context.prompt /\ check_password_prompt(t)
       THEN [flag |-> "become_prompt", suppress_output |-> TRUE]
     ELSE IF play_context.success_key /\ check_become_success(t)
       THEN [flag |-> "become_success", suppress_output |-> TRUE]
     ELSE IF sud /\ check_incorrect_password(t)
       THEN [flag |-> "become_error", suppress_output |-> FALSE]
     ELSE IF sud /\ check_missing_password(t)
       THEN [flag |-> "become_nopasswd_error", suppress_output |-> FALSE]
     ELSE [flag |-> "none", suppress_output |-> FALSE]

\* The for loop: acc carries the list output (a sequence of lines), the
\* flags, and (history) marked: the positions of the lines classified as
\* the prompt or as the success marker.
RECURSIVE ExamineLines(_, _, _, _)
ExamineLines(f, lines, sud, acc) ==
  IF lines = <<>> THEN acc
  ELSE LET l == Head(lines)
           c == Classify(f, l, sud)
       IN ExamineLines(f, Tail(lines), sud,
            [output |-> IF c.suppress_output THEN acc.output ELSE Append(acc.output, l),
             flags |-> IF c.flag = "none" THEN acc.flags
                       ELSE [acc.flags EXCEPT ![c.flag] = TRUE],
             marked |-> IF c.flag \in {"become_prompt", "become_success"}
                        THEN acc.marked \cup {l[i] : i \in 1..Len(l)}
                        ELSE acc.marked])

RECURSIVE join(_)
join(ls) == IF ls = <<>> THEN <<>> ELSE Head(ls) \o join(Tail(ls))

\* _examine_output(source, state, chunk, sudoable) with self._flags = fl:
\* the processed output, the unprocessed remainder, the flags afterwards and
\* (history) the positions of the lines it classified as prompt or success.
_examine_output(f, chunk, sud, fl) ==
  LET r == ExamineLines(f, splitlines(f, chunk), sud,
                        [output |-> <<>>, flags |-> fl, marked |-> {}])
      held == r.output # <<>> /\ ~endswith_newline(f, r.output[Len(r.output)])
  IN [output |-> IF held THEN join(SubSeq(r.output, 1, Len(r.output) - 1))
                 ELSE join(r.output),
      remainder |-> IF held THEN r.output[Len(r.output)] ELSE <<>>,
      flags |-> r.flags,
      marked |-> r.marked]


\* ------------------------------------------------------- _build_command

\* An argument string is modelled as the sequence of the words shlex.split
\* gives, the empty ones included; _split_args drops those.
_split_args(argstring) == SelectSeq(argstring, LAMBDA x : x # "")

\* "ControlPersist" in arg, "ControlPath" in arg, for the tokens of the model.
ControlPathOption == "ControlPath=$HOME/.ansible/cp/ansible-ssh-%h-%p-%r"
ControlPersistIn(arg) == arg \in {"ControlPersist=60s", "ControlPersist=30m"}
ControlPathIn(arg) ==
  arg \in {ControlPathOption, "ControlPath=/tmp/cp",
           "IdentityFile=\"/keys/ControlPath/id\""}

\* os.pipe(): the two lowest descriptors the parent has free.
LowestFree(open) == CHOOSE n \in 3..(4 + Cardinality(open)) :
                      n \notin open /\ \A m \in 3..(n - 1) : m \in open
os_pipe(open) ==
  LET r == LowestFree(open) IN <<r, LowestFree(open \cup {r})>>

\* self._command as it stands at line 206, before the ControlPath scan;
\* fds is self.sshpass_pipe.
CommandBeforeScan(binary, fds) ==
  (IF play_context.password
     THEN <<"sshpass", "-d" \o ToString(fds[1])>> ELSE <<>>)
  \o <<binary>>
  \o (IF binary = "sftp" /\ C.DEFAULT_SFTP_BATCH_MODE THEN <<"-b", "-">>
      ELSE IF binary = "ssh" THEN <<"-C">> ELSE <<>>)
  \o (IF play_context.verbosity > 3 THEN <<"-vvv">>
      ELSE IF binary = "ssh" THEN <<"-q">> ELSE <<>>)
  \o (IF self.ssh_args # <<>> THEN _split_args(self.ssh_args)
      ELSE IF C.ANSIBLE_SSH_ARGS # <<>> THEN _split_args(C.ANSIBLE_SSH_ARGS)
      ELSE <<"-o", "ControlMaster=auto", "-o", "ControlPersist=60s">>)
  \o (IF ~C.HOST_KEY_CHECKING THEN <<"-o", "StrictHostKeyChecking=no">> ELSE <<>>)
  \o (IF play_context.port # "None"
        THEN <<"-o", "Port=" \o play_context.port>> ELSE <<>>)
  \o (IF play_context.private_key_file # ""
        THEN <<"-o", "IdentityFile=\"" \o play_context.private_key_file \o "\"">>
        ELSE <<>>)
  \o (IF ~play_context.password
        THEN <<"-o", "KbdInteractiveAuthentication=no",
               "-o", "PreferredAuthentications=gssapi-with-mic,gssapi-keyex,hostbased,publickey",
               "-o", "PasswordAuthentication=no">>
        ELSE <<>>)
  \o (IF play_context.remote_user # "" /\ play_context.remote_user # "local"
        THEN <<"-o", "User=" \o play_context.remote_user>> ELSE <<>>)
  \o <<"-o", "ConnectTimeout=" \o ToString(play_context.timeout)>>
  \o (IF play_context.ssh_extra_args # <<>> THEN _split_args(play_context.ssh_extra_args)
      ELSE IF self.ssh_extra_args # <<>> THEN _split_args(self.ssh_extra_args)
      ELSE <<>>)

cp_in_use(command) == \E i \in 1..Len(command) : ControlPersistIn(command[i])
cp_path_set(command) == \E i \in 1..Len(command) : ControlPathIn(command[i])

\* _build_command(binary, *other_args).  probe is what the sshpass probe finds
\* if it runs, writable what os.access answers if it is asked; open is the set
\* of sshpass descriptors the parent holds.  error is "none" when the command
\* is returned.
_build_command(binary, other_args, probe, writable, open) ==
  LET available == IF SSHPASS_AVAILABLE = "None" THEN probe
                   ELSE SSHPASS_AVAILABLE = "True"
      memo == IF ~play_context.password THEN SSHPASS_AVAILABLE
              ELSE IF available THEN "True" ELSE "False"
      piped == play_context.password /\ available
      fds == IF piped THEN os_pipe(open) ELSE <<>>
      c == CommandBeforeScan(binary, fds)
      add_cp == cp_in_use(c) /\ ~cp_path_set(c)
      c2 == IF add_cp THEN c \o <<"-o", ControlPathOption>> ELSE c
  IN IF play_context.password /\ ~available
       THEN [error |-> "sshpass", command |-> <<>>, memo |-> memo,
             fds |-> <<>>, persistent |-> FALSE]
     ELSE IF add_cp /\ ~writable
       THEN [error |-> "ControlPath", command |-> <<>>, memo |-> memo,
             fds |-> fds, persistent |-> FALSE]
     ELSE [error |-> "none", command |-> c2 \o other_args, memo |-> memo,
           fds |-> fds, persistent |-> cp_in_use(c)]


\* ------------------------------------------------------------ outcomes

NoOutcome == [kind |-> "none", rc |-> -1, stdout |-> <<>>, stderr |-> <<>>, error |-> "none"]
Return(rc, out, err) == [kind |-> "return", rc |-> rc, stdout |-> out, stderr |-> err, error |-> "none"]
\* An error: its kind and the output its message carries.
Raise(e, out, err) == [kind |-> "raise", rc |-> -1, stdout |-> out, stderr |-> err, error |-> e]

\* The errors that are AnsibleConnectionFailure; the others are AnsibleError,
\* but for "IOError", which is the OSError/IOError of a failed write.
ConnectionFailures == {"data could not be sent", "Failed to connect"}

\* ------------------------------------------------------------ the child

NoPoll == [rfd |-> {"none"}, state |-> -1]
\* (history) The state and the flags that the escalation step of the last
\* iteration (lines 504-525) found, none before the first.
NoStep == [state |-> -1, flags |-> NoFlags]
NewPipes == [f \in Streams |-> [sent |-> <<>>, rd |-> 0, open |-> TRUE]]
NoChild == [spawned |-> 0, exited |-> FALSE, returncode |-> 0, terminated |-> FALSE]
NoStdin == [open |-> FALSE, written |-> <<>>, closes |-> 0, close_calls |-> 0]

RunVars ==
  <<cmd, in_data, sudoable, state, flags, stdout, stderr, tmp_stdout,
    tmp_stderr, rpipes, timeout, stdin, p, pipe>>
ExecVars == <<attempt, return_tuple, pauses, calls>>
ConfigVars == <<C, play_context, self, api>>

Running == pc \in {"loop", "wait"}

\* What the child may write to f.  While the state is before ready_to_send
\* every byte is examined, so every byte is possible.  From ready_to_send on
\* _run appends what it reads without looking at it (lines 488-491) and only
\* searches stderr for the ControlPersist text (line 573): the bytes written
\* then are "x", or "C" on stderr.  On stdout "C" is never told from "x".
Alphabet(f) ==
  IF state < states_index("ready_to_send")
    THEN (IF f = "stderr" THEN Byte ELSE Byte \ {"C"})
    ELSE (IF f = "stderr" THEN {"x", "C"} ELSE {"x"})

\* The child writes byte b to its stdout or stderr.
ChildWrite(f, b) ==
  /\ Running
  /\ ~p.exited
  /\ pipe[f].open
  /\ b \in Alphabet(f)
  /\ hist.bytes < MaxBytes
  /\ pipe' = [pipe EXCEPT ![f].sent = Append(@, b)]
  /\ hist' = [hist EXCEPT !.bytes = @ + 1]
  /\ UNCHANGED <<ConfigVars, SSHPASS_AVAILABLE, pc, ExecVars, cmd, in_data, sudoable,
                 state, flags, stdout, stderr, tmp_stdout, tmp_stderr, rpipes,
                 timeout, stdin, p, sshpass_pipe, outcome, result>>

\* The last holder of the write end of f closes it: the parent will read EOF.
ChildClose(f) ==
  /\ Running
  /\ pipe[f].open
  /\ pipe' = [pipe EXCEPT ![f].open = FALSE]
  /\ UNCHANGED <<ConfigVars, SSHPASS_AVAILABLE, pc, ExecVars, cmd, in_data, sudoable,
                 state, flags, stdout, stderr, tmp_stdout, tmp_stderr, rpipes,
                 timeout, stdin, p, sshpass_pipe, outcome, result, hist>>

\* The child exits.  Its pipes may stay open: a ControlMaster that went into
\* the background keeps stderr.  The exit code is drawn where _run reads it.
ChildExit ==
  /\ Running
  /\ ~p.exited
  /\ p' = [p EXCEPT !.exited = TRUE]
  /\ UNCHANGED <<ConfigVars, SSHPASS_AVAILABLE, pc, ExecVars, cmd, in_data, sudoable,
                 state, flags, stdout, stderr, tmp_stdout, tmp_stderr, rpipes,
                 timeout, stdin, pipe, sshpass_pipe, outcome, result, hist>>

\* ------------------------------------------------- _send_initial_data

\* fh.write(in_data); fh.close().  fail: the write raises OSError/IOError, and
\* the handle is left as it was.  closes counts the closes of the open
\* handle, close_calls the calls of close().
SendNoClose(fh, fail) ==
  IF fail THEN [ok |-> FALSE, fh |-> fh]
  ELSE [ok |-> TRUE, fh |-> [fh EXCEPT !.written = Append(@, "in_data")]]

_send_initial_data(fh, fail) ==
  IF fail THEN [ok |-> FALSE, fh |-> fh]
  ELSE [ok |-> TRUE,
        fh |-> [fh EXCEPT !.written = Append(@, "in_data"),
                          !.open = FALSE,
                          !.closes = @ + (IF fh.open THEN 1 ELSE 0),
                          !.close_calls = @ + 1]]

\* stdin.close() at line 567.
CloseStdin(fh) ==
  [fh EXCEPT !.open = FALSE,
             !.closes = @ + (IF fh.open THEN 1 ELSE 0),
             !.close_calls = @ + 1]

\* --------------------------------------------------------------- _run

InCmd(command, word) == \E i \in 1..Len(command) : command[i] = word

\* Lines 408-419: the initial state.
InitialState(command) ==
  IF InCmd(command, "ssh")
    THEN IF play_context.prompt THEN states_index("awaiting_prompt")
         ELSE IF play_context.become /\ play_context.success_key
           THEN states_index("awaiting_escalation")
         ELSE states_index("ready_to_send")
  ELSE states_index("ready_to_send")

\* Lines 370-384.  Without in_data the child is started on a pty: openpty,
\* Popen with the slave as stdin, fdopen of the master, close of the slave.
\* pty is the one of these steps that raises OSError/IOError, "none" when
\* none does.
PtySteps == {"none", "openpty", "Popen", "fdopen", "close"}

\* The children that lines 370-384 start: the except clause at line 379
\* sets p to None whichever step raised, and line 382 then calls Popen
\* again; when fdopen or close raised, the Popen at line 376 had started a
\* child already.
Spawns(data, pty) ==
  IF ~data /\ pty \in {"fdopen", "close"} THEN 2 ELSE 1

\* _run(cmd, in_data, sudoable) up to the first select: lines 358-445.  The
\* child is spawned, the sshpass pipe is written and closed, the state is
\* chosen and, in ready_to_send, in_data is sent.  wfail: that write fails.
RunStart(command, data, sud, wfail) ==
  LET s0 == InitialState(command)
      h0 == [open |-> TRUE, written |-> <<>>, closes |-> 0, close_calls |-> 0]
      send == states[s0 + 1] = "ready_to_send" /\ data
      sent == _send_initial_data(h0, wfail)
  IN /\ cmd' = command
     /\ in_data' = data
     /\ sudoable' = sud
     /\ \E pty \in PtySteps :
          p' = [spawned |-> Spawns(data, pty), exited |-> FALSE, returncode |-> 0,
                terminated |-> FALSE]
     /\ pipe' = NewPipes
     /\ flags' = NoFlags
     /\ stdout' = <<>> /\ stderr' = <<>>
     /\ tmp_stdout' = <<>> /\ tmp_stderr' = <<>>
     /\ timeout' = play_context.timeout
     /\ rpipes' = Streams
     /\ hist' = [hist EXCEPT !.marked = [f \in Streams |-> {}], !.runs = @ + 1,
                             !.poll = NoPoll, !.finished = FALSE,
                             !.esc = NoStep]
     /\ IF send
          THEN /\ stdin' = sent.fh
               /\ IF sent.ok
                    THEN /\ state' = s0 + 1
                         /\ pc' = "loop"
                         /\ outcome' = NoOutcome
                    ELSE /\ state' = s0
                         /\ pc' = "handle"
                         /\ outcome' = Raise("data could not be sent", <<>>, <<>>)
          ELSE /\ stdin' = h0
               /\ state' = s0
               /\ pc' = "loop"
               /\ outcome' = NoOutcome


\* select.select(rpipes, [], [], timeout): a pipe is readable when it holds
\* unread bytes or has been closed (EOF).
Readable(f) == pipe[f].rd < Len(pipe[f].sent) \/ ~pipe[f].open
Select == {f \in rpipes : Readable(f)}

\* p.stdout.read(): the positions of the unread bytes of f.
Read(f) == [i \in 1..(Len(pipe[f].sent) - pipe[f].rd) |-> pipe[f].rd + i]

\* Lines 452-455: the poll came back empty during the negotiation.
TimedOutAnyState(rfd, st) == rfd = {}

TimedOut(rfd, st) == rfd = {} /\ st <= states_index("awaiting_escalation")

\* Lines 478-491 for one stream: acc is stdout or stderr, tmp the tmp_ of it
\* with the chunk just read appended.
Accumulate(f, st, acc, tmp, sud, fl) ==
  IF st < states_index("ready_to_send")
    THEN IF tmp # <<>>
           THEN LET e == _examine_output(f, tmp, sud, fl)
                IN [acc |-> acc \o e.output, tmp |-> e.remainder,
                    flags |-> e.flags, marked |-> e.marked]
           ELSE [acc |-> acc, tmp |-> tmp, flags |-> fl, marked |-> {}]
    ELSE [acc |-> acc \o tmp, tmp |-> <<>>, flags |-> fl, marked |-> {}]

\* Lines 495-499: the password is written on a prompt.
PromptStepBack(st, fl) ==
  IF states[st + 1] = "awaiting_escalation" /\ fl.become_prompt
    THEN [state |-> st - 1, flags |-> [fl EXCEPT !.become_prompt = FALSE], write |-> TRUE]
  ELSE IF states[st + 1] = "awaiting_prompt" /\ fl.become_prompt
    THEN [state |-> st + 1, flags |-> [fl EXCEPT !.become_prompt = FALSE], write |-> TRUE]
    ELSE [state |-> st, flags |-> fl, write |-> FALSE]

PromptStepOnSuccess(st, fl) ==
  IF states[st + 1] = "awaiting_prompt" /\ fl.become_prompt
    THEN [state |-> st + 1, flags |-> [fl EXCEPT !.become_prompt = FALSE], write |-> TRUE]
  ELSE IF states[st + 1] = "awaiting_prompt" /\ fl.become_success
    THEN [state |-> st + 1, flags |-> fl, write |-> FALSE]
    ELSE [state |-> st, flags |-> fl, write |-> FALSE]

PromptStepRepeat(st, fl) ==
  IF states[st + 1] = "awaiting_prompt" /\ fl.become_prompt
    THEN [state |-> st + 1, flags |-> [fl EXCEPT !.become_prompt = FALSE], write |-> TRUE]
  ELSE IF fl.become_prompt
    THEN [state |-> st, flags |-> [fl EXCEPT !.become_prompt = FALSE], write |-> TRUE]
    ELSE [state |-> st, flags |-> fl, write |-> FALSE]

PromptStep(st, fl) ==
  IF states[st + 1] = "awaiting_prompt" /\ fl.become_prompt
    THEN [state |-> st + 1, flags |-> [fl EXCEPT !.become_prompt = FALSE], write |-> TRUE]
    ELSE [state |-> st, flags |-> fl, write |-> FALSE]

\* Lines 504-525: success or failure of the escalation.
EscalationStepKeepFlag(st, fl) ==
  IF states[st + 1] = "awaiting_escalation"
    THEN IF fl.become_success
           THEN [state |-> st + 1, flags |-> fl, error |-> "none"]
         ELSE IF fl.become_error
           THEN [state |-> st, flags |-> fl, error |-> "Incorrect password"]
         ELSE IF fl.become_nopasswd_error
           THEN [state |-> st, flags |-> fl, error |-> "Missing password"]
         ELSE IF fl.become_prompt
           THEN [state |-> st, flags |-> fl, error |-> "Incorrect password"]
         ELSE [state |-> st, flags |-> fl, error |-> "none"]
    ELSE [state |-> st, flags |-> fl, error |-> "none"]

EscalationStepErrorFirst(st, fl) ==
  IF states[st + 1] = "awaiting_escalation"
    THEN IF fl.become_error
           THEN [state |-> st, flags |-> [fl EXCEPT !.become_error = FALSE],
                 error |-> "Incorrect password"]
         ELSE IF fl.become_success
           THEN [state |-> st + 1, flags |-> [fl EXCEPT !.become_success = FALSE],
                 error |-> "none"]
         ELSE IF fl.become_nopasswd_error
           THEN [state |-> st, flags |-> [fl EXCEPT !.become_nopasswd_error = FALSE],
                 error |-> "Missing password"]
         ELSE IF fl.become_prompt
           THEN [state |-> st, flags |-> [fl EXCEPT !.become_prompt = FALSE],
                 error |-> "Incorrect password"]
         ELSE [state |-> st, flags |-> fl, error |-> "none"]
    ELSE [state |-> st, flags |-> fl, error |-> "none"]

EscalationStep(st, fl) ==
  IF states[st + 1] = "awaiting_escalation"
    THEN IF fl.become_success
           THEN [state |-> st + 1, flags |-> [fl EXCEPT !.become_success = FALSE],
                 error |-> "none"]
         ELSE IF fl.become_error
           THEN [state |-> st, flags |-> [fl EXCEPT !.become_error = FALSE],
                 error |-> "Incorrect password"]
         ELSE IF fl.become_nopasswd_error
           THEN [state |-> st, flags |-> [fl EXCEPT !.become_nopasswd_error = FALSE],
                 error |-> "Missing password"]
         ELSE IF fl.become_prompt
           THEN [state |-> st, flags |-> [fl EXCEPT !.become_prompt = FALSE],
                 error |-> "Incorrect password"]
         ELSE [state |-> st, flags |-> fl, error |-> "none"]
    ELSE [state |-> st, flags |-> fl, error |-> "none"]

\* Lines 539-561: what the end of an iteration does.
LoopEndAtEofOnly(exited, rp, rfd) ==
  IF exited
    THEN IF rp = {} THEN "break"
         ELSE IF "stdout" \notin rp THEN "continue0"
         ELSE "continue"
  ELSE IF rp = {} THEN "wait"
  ELSE "continue"

LoopEndOnExit(exited, rp, rfd) ==
  IF exited THEN "break"
  ELSE IF rp = {} THEN "wait"
  ELSE "continue"

LoopEnd(exited, rp, rfd) ==
  IF exited
    THEN IF rp = {} \/ rfd = {} THEN "break"
         ELSE IF "stdout" \notin rp THEN "continue0"
         ELSE "continue"
  ELSE IF rp = {} THEN "wait"
  ELSE "continue"

\* The chunk the iteration reads from f (lines 460-472).
Chunk(f, rfd) == IF f \in rfd THEN Read(f) ELSE <<>>

\* The values of _run's locals, and the outcome, after one iteration of the
\* while loop that polled rfd, accumulated a_out and a_err and made the steps
\* s1 and s2 (lines 493-563).  pc is "loop" when the loop goes on.
IterEnd(wfail, rfd, a_out, a_err, s1, s2) ==
  LET h1 == IF s1.write THEN [stdin EXCEPT !.written = Append(@, "become_pass")]
            ELSE stdin
      ready == states[s2.state + 1] = "ready_to_send"
      sent == IF ready /\ in_data THEN _send_initial_data(h1, wfail)
              ELSE [ok |-> TRUE, fh |-> h1]
      rp == rpipes \ {f \in rfd : Read(f) = <<>>}
      end == LoopEnd(p.exited, rp, rfd)
      read == [stdout |-> a_out.acc, tmp_stdout |-> a_out.tmp,
               stderr |-> a_err.acc, tmp_stderr |-> a_err.tmp,
               rpipes |-> rp, marked |-> [stdout |-> a_out.marked,
                                          stderr |-> a_err.marked],
               esc |-> IF s1.write /\ wfail THEN NoStep
                       ELSE [state |-> s1.state, flags |-> s1.flags]]
  IN IF s1.write /\ wfail
       THEN \* stdin.write(become_pass) raises
            [read |-> read, stdin |-> stdin, state |-> state, flags |-> a_err.flags,
             terminated |-> FALSE, timeout |-> timeout,
             outcome |-> Raise("IOError", <<>>, <<>>), pc |-> "handle"]
     ELSE IF s2.error # "none"
       THEN \* self._terminate_process(p); raise AnsibleError(...)
            [read |-> read, stdin |-> h1, state |-> s2.state, flags |-> s2.flags,
             terminated |-> TRUE, timeout |-> timeout,
             outcome |-> Raise(s2.error, <<>>, <<>>), pc |-> "handle"]
     ELSE IF ~sent.ok
       THEN \* _send_initial_data raises AnsibleConnectionFailure
            [read |-> read, stdin |-> h1, state |-> s2.state, flags |-> s2.flags,
             terminated |-> FALSE, timeout |-> timeout,
             outcome |-> Raise("data could not be sent", <<>>, <<>>), pc |-> "handle"]
     ELSE [read |-> read, stdin |-> sent.fh,
           state |-> IF ready THEN s2.state + 1 ELSE s2.state, flags |-> s2.flags,
           terminated |-> FALSE,
           timeout |-> IF end = "continue0" THEN 0 ELSE timeout,
           outcome |-> outcome,
           pc |-> CASE end = "break" -> "after_loop"
                    [] end = "wait" -> "wait"
                    [] OTHER -> "loop"]

IterSteps(wfail, rfd, a_out, a_err, s1) ==
  IterEnd(wfail, rfd, a_out, a_err, s1, EscalationStep(s1.state, s1.flags))

IterAccumulated(wfail, rfd, a_out, a_err) ==
  IterSteps(wfail, rfd, a_out, a_err, PromptStep(state, a_err.flags))

IterRead(wfail, rfd, a_out) ==
  IterAccumulated(wfail, rfd, a_out,
    Accumulate("stderr", state, stderr, tmp_stderr \o Chunk("stderr", rfd),
               sudoable, a_out.flags))

\* One iteration that does not time out, lines 457-563.
Iteration(wfail, rfd) ==
  IterRead(wfail, rfd,
    Accumulate("stdout", state, stdout, tmp_stdout \o Chunk("stdout", rfd),
               sudoable, flags))

\* The iteration assigns it to the locals.
IterAssign(rfd, it) ==
  /\ pipe' = [f \in Streams |->
               IF f \in rfd THEN [pipe[f] EXCEPT !.rd = Len(pipe[f].sent)] ELSE pipe[f]]
  /\ rpipes' = it.read.rpipes
  /\ stdout' = it.read.stdout /\ tmp_stdout' = it.read.tmp_stdout
  /\ stderr' = it.read.stderr /\ tmp_stderr' = it.read.tmp_stderr
  /\ hist' = [hist EXCEPT
               !.poll = [rfd |-> rfd, state |-> state],
               !.esc = it.read.esc,
               !.marked = [f \in Streams |-> @[f] \cup it.read.marked[f]]]
  /\ stdin' = it.stdin
  /\ state' = it.state
  /\ flags' = it.flags
  /\ p' = [p EXCEPT !.terminated = it.terminated]
  /\ timeout' = it.timeout
  /\ outcome' = it.outcome
  /\ pc' = it.pc

\* One iteration of the while loop, lines 448-563.  wfail: a write to the
\* child's stdin made in this iteration raises OSError/IOError, which can
\* happen once the child has exited.
RunIter(wfail) ==
  /\ pc = "loop"
  /\ wfail => p.exited
  /\ IF TimedOut(Select, state)
       THEN \* self._terminate_process(p); raise AnsibleError('Timeout ...')
            /\ p' = [p EXCEPT !.terminated = TRUE]
            /\ outcome' = Raise("Timeout", Bytes("stdout", stdout), <<>>)
            /\ pc' = "handle"
            /\ hist' = [hist EXCEPT !.poll = [rfd |-> Select, state |-> state],
                                    !.esc = NoStep]
            /\ UNCHANGED <<state, flags, stdout, stderr, tmp_stdout, tmp_stderr,
                           rpipes, timeout, stdin, pipe>>
       ELSE IterAssign(Select, Iteration(wfail, Select))
  /\ UNCHANGED <<ConfigVars, SSHPASS_AVAILABLE, ExecVars, cmd, in_data, sudoable,
                 sshpass_pipe, result>>

\* p.wait() at line 560: both pipes gave EOF before the child exited.
RunWait ==
  /\ pc = "wait"
  /\ p.exited
  /\ pc' = "after_loop"
  /\ UNCHANGED <<ConfigVars, SSHPASS_AVAILABLE, ExecVars, RunVars, sshpass_pipe,
                 outcome, result, hist>>

\* "X: ControlPersist" in stderr, for either of the two messages.
controlpersisterror(err) == \E i \in 1..Len(err) : err[i] = "C"

\* Lines 569-580: the exit code and stderr are turned into the outcome.
InterpretIgnoreData(command, returncode, out, err, data) ==
  IF C.HOST_KEY_CHECKING /\ command[1] = "sshpass" /\ returncode = 6
    THEN Raise("sshpass host key", <<>>, <<>>)
  ELSE IF returncode # 0 /\ controlpersisterror(err)
    THEN Raise("ControlPersist unsupported", <<>>, <<>>)
  ELSE Return(returncode, out, err)

InterpretRaiseNonZero(command, returncode, out, err, data) ==
  IF returncode # 0 THEN Raise("nonzero", <<>>, <<>>)
  ELSE Return(returncode, out, err)

Interpret(command, returncode, out, err, data) ==
  IF C.HOST_KEY_CHECKING /\ command[1] = "sshpass" /\ returncode = 6
    THEN Raise("sshpass host key", <<>>, <<>>)
  ELSE IF returncode # 0 /\ controlpersisterror(err)
    THEN Raise("ControlPersist unsupported", <<>>, <<>>)
  ELSE IF returncode = 255 /\ data
    THEN Raise("data could not be sent", <<>>, <<>>)
  ELSE Return(returncode, out, err)

\* Lines 565-580: after the loop.  rc is the code the child exited with.
RunFinish(rc) ==
  /\ pc = "after_loop"
  /\ stdin' = CloseStdin(stdin)
  /\ p' = [p EXCEPT !.returncode = rc]
  /\ outcome' = Interpret(cmd, rc, Bytes("stdout", stdout),
                          Bytes("stderr", stderr), in_data)
  /\ pc' = "handle"
  /\ hist' = [hist EXCEPT !.finished = TRUE]
  /\ UNCHANGED <<ConfigVars, SSHPASS_AVAILABLE, ExecVars, cmd, in_data, sudoable,
                 state, flags, stdout, stderr, tmp_stdout, tmp_stderr, rpipes,
                 timeout, pipe, sshpass_pipe, result>>

\* --------------------------------------------------------- exec_command

\* 255 = failure from the ssh command itself (line 264).
SSH_FAILURE == 255
\* The longest pause between two attempts, in seconds (line 274).
MAX_PAUSE == 30

\* Line 257.
remaining_tries == C.ANSIBLE_SSH_RETRIES + 1

\* Lines 273-275.
PauseUncapped(a) == 2 ^ a - 1

Pause(a) == IF 2 ^ a - 1 > MAX_PAUSE THEN MAX_PAUSE ELSE 2 ^ a - 1

\* How the body of the for loop ends for the attempt a whose _exec_command
\* ended as o (lines 260-285): "break" (return return_tuple), "raise" (raise
\* e) or "continue" (sleep, then the next attempt).
AttemptEndNoRetryOn255(a, o) ==
  IF o.kind = "return" THEN "break"
  ELSE IF a = remaining_tries - 1 THEN "raise" ELSE "continue"

AttemptEndConfigNotRetried(a, o) ==
  IF o.kind = "return"
    THEN IF o.rc # SSH_FAILURE \/ a = remaining_tries - 1 THEN "break"
         ELSE "continue"
  ELSE IF a = remaining_tries - 1 \/ o.error \in {"sshpass", "ControlPath"}
    THEN "raise" ELSE "continue"

AttemptEnd(a, o) ==
  IF o.kind = "return"
    THEN IF o.rc # SSH_FAILURE \/ a = remaining_tries - 1 THEN "break"
         ELSE \* raise AnsibleConnectionFailure("Failed to connect ..."),
              \* caught at line 269 with attempt # remaining_tries - 1
              "continue"
  ELSE IF a = remaining_tries - 1 THEN "raise" ELSE "continue"

\* Line 261: the assignment to return_tuple, made when _exec_command returns.
AssignKeepFirst(rt, o) ==
  IF o.kind = "return" /\ rt.kind = "none" THEN o ELSE rt

Assign(rt, o) == IF o.kind = "return" THEN o ELSE rt

\* exec_command(cmd, in_data, sudoable) is called: lines 257-259.
ExecCommand ==
  /\ pc = "start"
  /\ api.name = "exec_command"
  /\ attempt' = 0
  /\ pc' = "attempt"
  /\ UNCHANGED <<ConfigVars, SSHPASS_AVAILABLE, return_tuple, pauses, calls, RunVars,
                 sshpass_pipe, outcome, result, hist>>

\* What _build_command leaves in self.sshpass_pipe and in the parent's
\* descriptors when the command is not run (ran = FALSE) or is run, and _run
\* closes both ends (lines 389-392).
AfterBuild(b, ran) ==
  [fds |-> IF b.fds # <<>> THEN b.fds ELSE sshpass_pipe.fds,
   open |-> IF ran THEN sshpass_pipe.open
            ELSE sshpass_pipe.open \cup {b.fds[i] : i \in 1..Len(b.fds)}]

\* _exec_command, lines 289-306, up to the first select of _run.
ExecAttempt(probe, writable, wfail) ==
  /\ pc = "attempt"
  /\ calls' = calls + 1
  /\ LET b == _build_command("ssh",
                 IF api.in_data THEN <<"host", api.cmd>> ELSE <<"-tt", "host", api.cmd>>,
                 probe, writable, sshpass_pipe.open)
     IN /\ SSHPASS_AVAILABLE' = b.memo
        /\ IF b.error # "none"
             THEN /\ outcome' = Raise(b.error, <<>>, <<>>)
                  /\ pc' = "handle"
                  /\ sshpass_pipe' = AfterBuild(b, FALSE)
                  /\ UNCHANGED <<RunVars, hist>>
             ELSE /\ RunStart(b.command, api.in_data, api.sudoable, wfail)
                  /\ sshpass_pipe' = AfterBuild(b, TRUE)
  /\ UNCHANGED <<ConfigVars, attempt, return_tuple, pauses, result>>

\* Lines 262-287: what exec_command does with the attempt's outcome.
ExecHandle ==
  /\ pc = "handle"
  /\ api.name = "exec_command"
  /\ LET end == AttemptEnd(attempt, outcome)
         rt == Assign(return_tuple, outcome)
     IN /\ return_tuple' = rt
        /\ CASE end = "break" ->
                  /\ result' = rt
                  /\ pc' = "done"
                  /\ UNCHANGED <<attempt, pauses>>
             [] end = "raise" ->
                  /\ result' = outcome
                  /\ pc' = "done"
                  /\ UNCHANGED <<attempt, pauses>>
             [] OTHER ->
                  /\ pauses' = Append(pauses, Pause(attempt))
                  /\ attempt' = attempt + 1
                  /\ pc' = "attempt"
                  /\ UNCHANGED result
  /\ UNCHANGED <<ConfigVars, SSHPASS_AVAILABLE, calls, RunVars, sshpass_pipe,
                 outcome, hist>>

\* ------------------------------------------------ put_file, fetch_file

ReturnsNone == [kind |-> "return", rc |-> -1, stdout |-> <<>>, stderr |-> <<>>, error |-> "none"]

\* The command and in_data of a transfer (lines 323-328, 346-351).
TransferArgs(name) ==
  IF C.DEFAULT_SCP_IF_SSH
    THEN [binary |-> "scp",
          other |-> IF name = "put_file" THEN <<api.in_path, "[host]:" \o api.out_path>>
                    ELSE <<"[host]:" \o api.in_path, api.out_path>>,
          in_data |-> FALSE]
    ELSE [binary |-> "sftp", other |-> <<"[host]">>, in_data |-> TRUE]

\* put_file / fetch_file up to the first select of _run.
Transfer(name, probe, writable, wfail) ==
  /\ pc = "start"
  /\ api.name = name
  /\ IF name = "put_file" /\ ~api.exists
       THEN /\ result' = Raise("file not found", <<>>, <<>>)
            /\ pc' = "done"
            /\ UNCHANGED <<SSHPASS_AVAILABLE, RunVars, sshpass_pipe, outcome, hist>>
       ELSE LET t == TransferArgs(name)
                b == _build_command(t.binary, t.other, probe, writable, sshpass_pipe.open)
            IN /\ SSHPASS_AVAILABLE' = b.memo
               /\ IF b.error # "none"
                    THEN /\ result' = Raise(b.error, <<>>, <<>>)
                         /\ pc' = "done"
                         /\ sshpass_pipe' = AfterBuild(b, FALSE)
                         /\ UNCHANGED <<RunVars, outcome, hist>>
                    ELSE /\ RunStart(b.command, t.in_data, TRUE, wfail)
                         /\ sshpass_pipe' = AfterBuild(b, TRUE)
                         /\ UNCHANGED result
  /\ UNCHANGED <<ConfigVars, ExecVars>>

\* _build_command(binary, *other_args) called on its own, as exec_command,
\* put_file and fetch_file call it, with no _run after it.  The vector it
\* returns, or the error it raises, is recorded in hist.built.
BuildCommand(probe, writable) ==
  /\ pc = "start"
  /\ Len(hist.built) < MaxBuilds
  /\ LET binary == IF api.name = "exec_command" THEN "ssh"
                   ELSE TransferArgs(api.name).binary
         other == IF api.name = "exec_command" THEN <<"-tt", "host", api.cmd>>
                  ELSE TransferArgs(api.name).other
         b == _build_command(binary, other, probe, writable, sshpass_pipe.open)
     IN /\ SSHPASS_AVAILABLE' = b.memo
        /\ sshpass_pipe' = AfterBuild(b, FALSE)
        /\ hist' = [hist EXCEPT !.built =
                      Append(@, [error |-> b.error, command |-> b.command])]
  /\ UNCHANGED <<ConfigVars, ExecVars, RunVars, pc, outcome, result>>

PutFile(probe, writable, wfail) == Transfer("put_file", probe, writable, wfail)
FetchFile(probe, writable, wfail) == Transfer("fetch_file", probe, writable, wfail)

\* Lines 332-333 and 355-356: what the transfer makes of _run's outcome.
TransferResultIgnore255(o) ==
  IF o.kind = "raise" THEN o
  ELSE IF o.rc # 0 /\ o.rc # SSH_FAILURE
    THEN Raise("failed to transfer file", o.stdout, o.stderr)
  ELSE ReturnsNone

TransferResult(o) ==
  IF o.kind = "raise" THEN o
  ELSE IF o.rc # 0 THEN Raise("failed to transfer file", o.stdout, o.stderr)
  ELSE ReturnsNone

TransferHandle ==
  /\ pc = "handle"
  /\ api.name \in {"put_file", "fetch_file"}
  /\ result' = TransferResult(outcome)
  /\ pc' = "done"
  /\ UNCHANGED <<ConfigVars, SSHPASS_AVAILABLE, ExecVars, RunVars, sshpass_pipe,
                 outcome, hist>>

\* ------------------------------------------------------ specification

\* The inputs.  PlayContext(pw, b): password authentication is used or not,
\* and b says what make_become_cmd has left in the play context: nothing, a
\* success key (escalation without a password) or a prompt too.
Escalations ==
  {[prompt |-> FALSE, success_key |-> FALSE, become |-> FALSE],
   [prompt |-> FALSE, success_key |-> TRUE, become |-> TRUE],
   [prompt |-> TRUE, success_key |-> TRUE, become |-> TRUE]}
NoEscalation == [prompt |-> FALSE, success_key |-> FALSE, become |-> FALSE]
FullEscalation == [prompt |-> TRUE, success_key |-> TRUE, become |-> TRUE]

PlayContext(pw, b) ==
  [password |-> pw, verbosity |-> 0, port |-> "None", private_key_file |-> "",
   remote_user |-> "alice", timeout |-> 10, ssh_extra_args |-> <<>>,
   prompt |-> b.prompt, success_key |-> b.success_key, become |-> b.become]

Config(hkc, scp, retries) ==
  [DEFAULT_SFTP_BATCH_MODE |-> TRUE, ANSIBLE_SSH_ARGS |-> <<>>,
   HOST_KEY_CHECKING |-> hkc, DEFAULT_SCP_IF_SSH |-> scp,
   ANSIBLE_SSH_RETRIES |-> retries]

ExecCall(data, sud) ==
  [name |-> "exec_command", cmd |-> "echo", in_data |-> data, sudoable |-> sud,
   in_path |-> "", out_path |-> "", exists |-> TRUE]

TransferCall(name, exists) ==
  [name |-> name, cmd |-> "", in_data |-> FALSE, sudoable |-> TRUE,
   in_path |-> "/a", out_path |-> "/b", exists |-> exists]

\* put_file(in_path, out_path) or fetch_file(in_path, out_path) of an
\* existing file.
TransferPaths(name, in_path, out_path) ==
  [name |-> name, cmd |-> "", in_data |-> FALSE, sudoable |-> TRUE,
   in_path |-> in_path, out_path |-> out_path, exists |-> TRUE]

\* Everything but the inputs and the inventory's arguments.
InitRest ==
  /\ SSHPASS_AVAILABLE = "None"
  /\ pc = "start"
  /\ attempt = 0
  /\ return_tuple = NoOutcome
  /\ pauses = <<>>
  /\ calls = 0
  /\ cmd = <<>> /\ in_data = FALSE /\ sudoable = TRUE
  /\ state = states_index("ready_to_send")
  /\ flags = NoFlags
  /\ stdout = <<>> /\ stderr = <<>> /\ tmp_stdout = <<>> /\ tmp_stderr = <<>>
  /\ rpipes = {}
  /\ timeout = 0
  /\ stdin = NoStdin
  /\ p = NoChild
  /\ pipe = NewPipes
  /\ sshpass_pipe = [fds |-> <<>>, open |-> {}]
  /\ outcome = NoOutcome
  /\ result = NoOutcome
  /\ hist = [marked |-> [f \in Streams |-> {}], bytes |-> 0, runs |-> 0,
             poll |-> NoPoll, finished |-> FALSE, built |-> <<>>,
             esc |-> NoStep]

\* Everything but the inputs.
InitCall ==
  /\ self = [ssh_args |-> <<>>, ssh_extra_args |-> <<>>]
  /\ InitRest

\* One call of exec_command without retries, of put_file or of fetch_file.
\* An escalation is negotiated with key authentication; password
\* authentication and host-key checking vary where none is negotiated.
Init ==
  /\ InitCall
  /\ \/ /\ api \in {ExecCall(d, s) : d \in BOOLEAN, s \in BOOLEAN}
        /\ play_context \in {PlayContext(FALSE, b) : b \in Escalations \ {NoEscalation}}
        /\ C = Config(TRUE, FALSE, 0)
     \/ /\ api \in {ExecCall(d, TRUE) : d \in BOOLEAN}
        /\ play_context \in {PlayContext(pw, NoEscalation) : pw \in BOOLEAN}
        /\ C \in {Config(hkc, FALSE, 0) : hkc \in BOOLEAN}
     \/ /\ api \in {TransferCall("put_file", e) : e \in BOOLEAN}
                   \cup {TransferCall("fetch_file", TRUE)}
        /\ play_context \in {PlayContext(pw, b) : pw \in BOOLEAN,
                                                 b \in {NoEscalation, FullEscalation}}
        /\ C \in {Config(hkc, scp, 0) : hkc \in BOOLEAN, scp \in BOOLEAN}

\* One call of exec_command with a retry budget, no escalation.
InitRetry ==
  /\ InitCall
  /\ api \in {ExecCall(d, TRUE) : d \in BOOLEAN}
  /\ play_context \in {PlayContext(pw, NoEscalation) : pw \in BOOLEAN}
  /\ C \in {Config(TRUE, FALSE, n) : n \in 0..MaxRetries}

Next ==
  \/ ExecCommand
  \/ \E probe, writable, wfail \in BOOLEAN : ExecAttempt(probe, writable, wfail)
  \/ ExecHandle
  \/ \E probe, writable, wfail \in BOOLEAN : PutFile(probe, writable, wfail)
  \/ \E probe, writable, wfail \in BOOLEAN : FetchFile(probe, writable, wfail)
  \/ TransferHandle
  \/ \E wfail \in BOOLEAN : RunIter(wfail)
  \/ RunWait
  \/ \E rc \in ExitCodes : RunFinish(rc)
  \/ \E f \in Streams, b \in Byte : ChildWrite(f, b)
  \/ \E f \in Streams : ChildClose(f)
  \/ ChildExit

Spec == Init /\ [][Next]_vars

NextRetry ==
  \/ ExecCommand
  \/ \E probe, writable, wfail \in BOOLEAN : ExecAttempt(probe, writable, wfail)
  \/ ExecHandle
  \/ \E wfail \in BOOLEAN : RunIter(wfail)
  \/ RunWait
  \/ \E rc \in ExitCodes : RunFinish(rc)
  \/ \E f \in Streams, b \in Byte : ChildWrite(f, b)
  \/ \E f \in Streams : ChildClose(f)
  \/ ChildExit

SpecRetry == InitRetry /\ [][NextRetry]_vars

\* One call of exec_command with a long retry budget, of a child that writes
\* nothing: it closes its pipes and exits with some code.
InitBackoff ==
  /\ InitCall
  /\ api = ExecCall(FALSE, TRUE)
  /\ play_context \in {PlayContext(pw, NoEscalation) : pw \in BOOLEAN}
  /\ C \in {Config(TRUE, FALSE, n) : n \in 0..MaxBackoffRetries}

NextBackoff ==
  \/ ExecCommand
  \/ \E probe, writable, wfail \in BOOLEAN : ExecAttempt(probe, writable, wfail)
  \/ ExecHandle
  \/ \E wfail \in BOOLEAN : RunIter(wfail)
  \/ RunWait
  \/ \E rc \in ExitCodes : RunFinish(rc)
  \/ \E f \in Streams : ChildClose(f)
  \/ ChildExit

SpecBackoff == InitBackoff /\ [][NextBackoff]_vars

\* The option blocks of the model: none, ControlPersist alone, ControlPersist
\* with a ControlPath, and one that mentions neither.
PersistOnly == <<"-o", "ControlPersist=30m">>
PersistAndPath == <<"-o", "ControlPersist=30m", "-o", "ControlPath=/tmp/cp">>
SshArgs == {<<>>, PersistOnly, PersistAndPath, <<"-o", "ForwardAgent=yes">>}

\* The play contexts of command building: port, private key file and
\* --ssh-extra-args vary too.
BuildContexts ==
  {[PlayContext(pw, b) EXCEPT !.port = port, !.private_key_file = key,
                              !.ssh_extra_args = extra] :
     pw \in BOOLEAN, b \in {NoEscalation, FullEscalation},
     port \in {"None", "2222"},
     key \in {"", "/keys/id", "/keys/ControlPath/id"},
     extra \in {<<>>, <<"-o", "ControlPath=/tmp/cp">>}}

\* A call of exec_command, put_file or fetch_file up to the first select of
\* _run, and before it up to MaxBuilds calls of _build_command alone, for
\* every configuration of command building.
InitBuild ==
  /\ InitRest
  /\ self \in {[ssh_args |-> a, ssh_extra_args |-> <<>>] : a \in SshArgs}
  /\ play_context \in BuildContexts
  /\ \/ /\ api = ExecCall(FALSE, TRUE)
        /\ C \in {[Config(TRUE, FALSE, 0) EXCEPT !.ANSIBLE_SSH_ARGS = a] :
                    a \in {<<>>, PersistOnly}}
     \/ /\ api \in {TransferPaths("put_file", i, "/b") : i \in {"/a", "ssh"}}
                   \cup {TransferPaths("fetch_file", "/a", o) : o \in {"/b", "ssh"}}
        /\ C \in {[Config(TRUE, scp, 0) EXCEPT !.ANSIBLE_SSH_ARGS = a] :
                    scp \in BOOLEAN, a \in {<<>>, PersistOnly}}

NextBuild ==
  \/ \E probe, writable \in BOOLEAN : BuildCommand(probe, writable)
  \/ ExecCommand
  \/ \E probe, writable, wfail \in BOOLEAN : ExecAttempt(probe, writable, wfail)
  \/ \E probe, writable, wfail \in BOOLEAN : PutFile(probe, writable, wfail)
  \/ \E probe, writable, wfail \in BOOLEAN : FetchFile(probe, writable, wfail)

SpecBuild == InitBuild /\ [][NextBuild]_vars

\* ----------------------------------------------------------- properties

AwaitingExit == states_index("awaiting_exit")
ReadyToSend == states_index("ready_to_send")

\* C1: within one invocation of _run the state index never decreases and
\* never goes past awaiting_exit, so a state that was left is not entered
\* again.
StateMovesForward ==
  /\ [](state \in 0..AwaitingExit)
  /\ [][hist'.runs = hist.runs => state' >= state]_vars

\* A run that went through all four states: the password was written on the
\* prompt, in_data after the success marker.
WitnessAllStates ==
  /\ state = AwaitingExit
  /\ stdin.written = <<"become_pass", "in_data">>

\* An attempt's outcome that makes exec_command try again, budget allowing.
Retryable(o) == o.kind = "raise" \/ (o.kind = "return" /\ o.rc = SSH_FAILURE)

\* C2: with N retries configured exec_command makes at least one and at most
\* N + 1 attempts; an attempt after the first is made only when the one
\* before raised or returned 255 and fewer than N + 1 were made, and
\* exec_command ends only on an attempt that is not of that kind or is the
\* last of the budget.
RetryBudget ==
  /\ [](calls <= C.ANSIBLE_SSH_RETRIES + 1)
  /\ [](pc = "done" => /\ calls >= 1
                       /\ ~(Retryable(outcome) /\ calls < C.ANSIBLE_SSH_RETRIES + 1))
  /\ [][calls' = calls + 1 /\ calls >= 1
          => Retryable(outcome) /\ calls < C.ANSIBLE_SSH_RETRIES + 1]_vars

\* A first attempt that returned 255 or raised, and a second one that ended
\* the call with budget left.
WitnessRetryThenSuccess ==
  /\ pc = "done"
  /\ C.ANSIBLE_SSH_RETRIES >= 2
  /\ calls = 2
  /\ result.kind = "return" /\ result.rc = 0

\* C3: what exec_command returns or raises is the outcome of the last
\* attempt it made, unchanged.
LastAttemptDecides == pc = "done" => result = outcome

\* The budget is used up and the last attempt's 255 is returned.
WitnessLast255Returned ==
  /\ pc = "done"
  /\ calls = C.ANSIBLE_SSH_RETRIES + 1 /\ calls >= 2
  /\ result.kind = "return" /\ result.rc = SSH_FAILURE

ConfigurationErrors == {"sshpass", "ControlPath"}

\* C4 as stated: an attempt whose command building raised a configuration
\* error (sshpass missing, control-path directory not writable) ends
\* exec_command: no pause, no further attempt.
ConfigErrorNotRetried ==
  [][pc = "handle" /\ outcome.error \in ConfigurationErrors
       => pc' = "done" /\ pauses' = pauses]_vars

\* C4: a configuration error of command building is raised before any child
\* is spawned in that attempt, and exec_command treats it as any other
\* error: it pauses and tries again unless the attempt was the last of the
\* budget, when it raises the error.
ConfigErrorRetried ==
  /\ [][calls' = calls + 1 /\ outcome'.error \in ConfigurationErrors
          => hist'.runs = hist.runs /\ p' = p]_vars
  /\ [][pc = "handle" /\ outcome.error \in ConfigurationErrors
          => IF attempt = C.ANSIBLE_SSH_RETRIES
               THEN pc' = "done" /\ result' = outcome /\ pauses' = pauses
               ELSE /\ pc' = "attempt" /\ attempt' = attempt + 1
                    /\ pauses' = Append(pauses, Pause(attempt))]_vars

\* Every attempt of a budget of three failed on the missing sshpass.
WitnessConfigErrorRetried ==
  /\ pc = "done"
  /\ result.error = "sshpass"
  /\ calls = C.ANSIBLE_SSH_RETRIES + 1 /\ calls >= 3
  /\ hist.runs = 0

Sent(word) == \E i \in 1..Len(stdin.written) : stdin.written[i] = word

Kept(f) ==
  SelectSeq([i \in 1..pipe[f].rd |-> i], LAMBDA i : i \notin hist.marked[f])

\* C6 as stated: what _run returns as stdout and stderr is all that was read
\* from the stream, in order, less the lines classified as prompt or success:
\* no byte is dropped, the remainder held back without a newline included.
OutputPreserved ==
  hist.finished /\ outcome.kind = "return"
    => /\ stdout = Kept("stdout") /\ stderr = Kept("stderr")
       /\ outcome.stdout = Bytes("stdout", stdout)
       /\ outcome.stderr = Bytes("stderr", stderr)

\* C7: no byte of a stdout line classified as prompt or success is in the
\* stdout that _run returns or that the timeout error carries.
MarkedLinesWithheld ==
  /\ \A i \in 1..Len(stdout) : stdout[i] \notin hist.marked["stdout"]
  /\ hist.finished /\ outcome.kind = "return"
       => outcome.stdout = Bytes("stdout", stdout)
  /\ outcome.error = "Timeout" => outcome.stdout = Bytes("stdout", stdout)

\* A success marker was read and withheld, and what followed was returned.
WitnessMarkerWithheld ==
  /\ hist.finished /\ outcome.kind = "return"
  /\ hist.marked["stdout"] # {}
  /\ outcome.stdout # <<>>

Negotiating == {states_index("awaiting_prompt"), states_index("awaiting_escalation")}

\* C8: the timeout error is raised exactly when a poll comes back empty
\* in awaiting_prompt or awaiting_escalation; an empty poll in ready_to_send
\* or awaiting_exit raises nothing.
TimeoutOnlyNegotiating ==
  /\ outcome.error = "Timeout"
       => hist.poll.rfd = {} /\ hist.poll.state \in Negotiating
  /\ hist.poll.rfd = {} /\ hist.poll.state \in Negotiating
       => outcome.error = "Timeout" /\ pc \in {"handle", "done"}
  /\ hist.poll.rfd = {} /\ hist.poll.state >= ReadyToSend
       => outcome.error # "Timeout"

\* The prompt was answered and the child then stayed silent.
WitnessTimeoutAfterPrompt ==
  /\ outcome.error = "Timeout"
  /\ Sent("become_pass")
  /\ state = states_index("awaiting_escalation")

\* C9 as stated: a child's exit code from 1 to 254 is always returned by
\* _run, unchanged, whatever the configuration and stderr.
ExitCodeReturned ==
  hist.finished /\ p.returncode \in 1..254
    => outcome.kind = "return" /\ outcome.rc = p.returncode

\* C9: a child's exit code from 1 to 254 is returned by _run, unchanged,
\* unless it is 6 from sshpass with host-key checking on, or stderr holds a
\* ControlPersist complaint; these two raise.
ExitCodeReturnedUnlessDiagnosed ==
  hist.finished /\ p.returncode \in 1..254
    => IF C.HOST_KEY_CHECKING /\ cmd[1] = "sshpass" /\ p.returncode = 6
         THEN outcome.error = "sshpass host key"
       ELSE IF controlpersisterror(Bytes("stderr", stderr))
         THEN outcome.error = "ControlPersist unsupported"
       ELSE outcome = Return(p.returncode, Bytes("stdout", stdout),
                             Bytes("stderr", stderr))

\* sshpass exits with 6 where host-key checking is off: the 6 is returned.
WitnessSixReturned ==
  /\ hist.finished
  /\ cmd[1] = "sshpass" /\ ~C.HOST_KEY_CHECKING
  /\ outcome.kind = "return" /\ outcome.rc = 6

IsTransfer == api.name \in {"put_file", "fetch_file"}

\* C10 as stated: put_file and fetch_file, by scp or sftp, report every exit
\* code but 0 as the transfer failure with the collected stdout and stderr,
\* and return on 0.
TransferFailureOnNonZero ==
  IsTransfer /\ pc = "done" /\ hist.finished
    => IF p.returncode = 0 THEN result = ReturnsNone
       ELSE result = Raise("failed to transfer file", Bytes("stdout", stdout),
                           Bytes("stderr", stderr))

\* C10: put_file and fetch_file return on exit code 0 and raise on every
\* other: the transfer failure with the collected stdout and stderr, unless
\* _run raised first, on 6 from sshpass with host-key checking on, on a
\* ControlPersist complaint in stderr or, by sftp, on 255.
TransferFailureUnlessDiagnosed ==
  IsTransfer /\ pc = "done" /\ hist.finished
    => IF p.returncode = 0 THEN result = ReturnsNone
       ELSE IF C.HOST_KEY_CHECKING /\ cmd[1] = "sshpass" /\ p.returncode = 6
         THEN result.error = "sshpass host key"
       ELSE IF controlpersisterror(Bytes("stderr", stderr))
         THEN result.error = "ControlPersist unsupported"
       ELSE IF p.returncode = SSH_FAILURE /\ ~C.DEFAULT_SCP_IF_SSH
         THEN result.error = "data could not be sent"
       ELSE result = Raise("failed to transfer file", Bytes("stdout", stdout),
                           Bytes("stderr", stderr))

\* scp exited with 255 and the transfer failure carries its stderr.
WitnessScpFailure ==
  /\ IsTransfer /\ pc = "done" /\ hist.finished
  /\ C.DEFAULT_SCP_IF_SSH /\ p.returncode = SSH_FAILURE
  /\ result.error = "failed to transfer file"
  /\ result.stderr # <<>>

\* C11 as stated: however a call ends (return, timeout, escalation failure,
\* failed write, command-building error), every invocation that was started
\* has had the child's stdin closed, and the parent holds no end of an
\* sshpass pipe.
DescriptorsClosedAtEnd ==
  pc = "done" => /\ sshpass_pipe.open = {}
                 /\ hist.runs >= 1 => ~stdin.open

\* min(30, 2^k - 1), written out: 0, 1, 3, 7, 15, 30, 30, ...
ExpectedPause(k) == IF k >= 5 THEN 30 ELSE <<0, 1, 3, 7, 15>>[k + 1]

\* C12: the sleep before retry k, made after attempt k was found retryable
\* and was not the last of the budget, is min(30, 2^k - 1) seconds; the
\* pauses never exceed 30 and never decrease, and no sleep follows the last
\* attempt.
BackoffPauses ==
  /\ [](\A i \in 1..Len(pauses) :
          /\ pauses[i] = ExpectedPause(i - 1)
          /\ pauses[i] <= 30
          /\ i > 1 => pauses[i] >= pauses[i - 1])
  /\ [](pc = "done" => Len(pauses) = calls - 1)
  /\ [][pauses' # pauses
          => /\ pauses' = Append(pauses, ExpectedPause(attempt))
             /\ Len(pauses) = attempt
             /\ Retryable(outcome)
             /\ attempt < C.ANSIBLE_SSH_RETRIES]_vars

\* Seven retries were made, the last two after the longest pause.
WitnessCappedPauses ==
  /\ pc = "done"
  /\ pauses = <<0, 1, 3, 7, 15, 30, 30>>

\* The pairs of calls of _build_command alone that both returned a vector.
BuiltTwice ==
  {ij \in (DOMAIN hist.built) \X (DOMAIN hist.built) :
     /\ ij[1] < ij[2]
     /\ hist.built[ij[1]].error = "none" /\ hist.built[ij[2]].error = "none"}

\* C13 as stated: two calls of _build_command with the same inputs return
\* the same vector, token for token, with a password set too.
BuildRepeatable ==
  \A ij \in BuiltTwice : hist.built[ij[1]].command = hist.built[ij[2]].command

\* The option block that is the source of the ssh arguments (lines 139-150).
SshArgsSource ==
  IF self.ssh_args # <<>> THEN self.ssh_args
  ELSE IF C.ANSIBLE_SSH_ARGS # <<>> THEN C.ANSIBLE_SSH_ARGS
  ELSE <<"-o", "ControlMaster=auto", "-o", "ControlPersist=60s">>

\* The places of the vector c that hold a ControlPath option.
ControlPathOptions(c) ==
  {i \in 2..Len(c) :
     c[i - 1] = "-o" /\ c[i] \in {ControlPathOption, "ControlPath=/tmp/cp"}}

\* C14 as stated: where the source of the ssh arguments mentions
\* ControlPersist and no ControlPath, a vector that _build_command returns
\* holds exactly one ControlPath option, whatever the port, the private key
\* file, the extra arguments and the caller's arguments.
ControlPathOnce ==
  cp_in_use(SshArgsSource) /\ ~cp_path_set(SshArgsSource)
    => \A k \in DOMAIN hist.built :
         hist.built[k].error = "none"
           => Cardinality(ControlPathOptions(hist.built[k].command)) = 1

\* C15 as stated: _run starts in awaiting_prompt for ssh with a prompt, in
\* awaiting_escalation for ssh with become and a success key and no prompt,
\* and otherwise, and always for scp and sftp, in ready_to_send, which it
\* leaves at once for awaiting_exit when there is in_data.
InitialStateByBinary ==
  hist.runs = 1 /\ pc = "loop" /\ hist.poll = NoPoll
    => IF api.name = "exec_command" /\ play_context.prompt
         THEN state = states_index("awaiting_prompt")
       ELSE IF api.name = "exec_command"
               /\ play_context.become /\ play_context.success_key
         THEN state = states_index("awaiting_escalation")
       ELSE state = (IF in_data THEN AwaitingExit ELSE ReadyToSend)

Wrote(fh, word) == \E i \in 1..Len(fh.written) : fh.written[i] = word

\* C16: the password is written to the child's stdin at most once, at the
\* step that leaves awaiting_prompt; in_data at most once, at the step that
\* leaves ready_to_send, never during the negotiation; so the password comes
\* before in_data and nothing is written after in_data.
StdinWritesOrdered ==
  /\ [](stdin.written \in {<<>>, <<"become_pass">>, <<"in_data">>,
                           <<"become_pass", "in_data">>})
  /\ [](Wrote(stdin, "in_data") => in_data /\ state = AwaitingExit /\ ~stdin.open)
  /\ [](Wrote(stdin, "become_pass")
          => play_context.prompt /\ state > states_index("awaiting_prompt"))
  /\ [][hist'.runs = hist.runs /\ stdin'.written # stdin.written
          => /\ Wrote(stdin', "become_pass") /\ ~Wrote(stdin, "become_pass")
                => /\ state = states_index("awaiting_prompt")
                   /\ state' > state
             /\ Wrote(stdin', "in_data") /\ ~Wrote(stdin, "in_data")
                => /\ state < AwaitingExit
                   /\ state' = AwaitingExit]_vars

\* The child prompted twice: the password was written once, the second
\* prompt failed the escalation.
WitnessOnePassword ==
  /\ stdin.written = <<"become_pass">>
  /\ outcome.error = "Incorrect password"
  /\ pipe["stdout"].sent = <<"P", "P">>

EscalationErrors == {"Incorrect password", "Missing password"}

\* C17: in awaiting_escalation the flags are resolved by the first that is
\* raised of become_success, become_error, become_nopasswd_error and
\* become_prompt: success moves on to ready_to_send, error and a repeated
\* prompt raise "Incorrect password", nopasswd error raises "Missing
\* password"; these errors and the timeout, and no other outcome, have the
\* child terminated.
EscalationFirstMatch ==
  /\ hist.esc.state = states_index("awaiting_escalation")
       => IF hist.esc.flags.become_success
            THEN state >= ReadyToSend /\ outcome.error \notin EscalationErrors
          ELSE IF hist.esc.flags.become_error
            THEN state = hist.esc.state /\ outcome.error = "Incorrect password"
          ELSE IF hist.esc.flags.become_nopasswd_error
            THEN state = hist.esc.state /\ outcome.error = "Missing password"
          ELSE IF hist.esc.flags.become_prompt
            THEN state = hist.esc.state /\ outcome.error = "Incorrect password"
          ELSE state = hist.esc.state /\ outcome.error \notin EscalationErrors
  /\ outcome.error \in EscalationErrors
       => hist.esc.state = states_index("awaiting_escalation")
  /\ p.terminated <=> outcome.error \in EscalationErrors \cup {"Timeout"}

\* The success marker and an error message were read in one iteration:
\* success won.
WitnessSuccessBeforeError ==
  /\ hist.esc.state = states_index("awaiting_escalation")
  /\ hist.esc.flags.become_success /\ hist.esc.flags.become_error
  /\ state >= ReadyToSend

\* f has given EOF and all it carried was read.
AtEof(f) == ~pipe[f].open /\ pipe[f].rd = Len(pipe[f].sent)

\* C18 as stated: when the loop of _run is left without an error the child
\* has exited and stdout and stderr have both been read to EOF and taken out
\* of the pipe set.
LoopEndsAtEof ==
  pc = "after_loop" => p.exited /\ rpipes = {} /\ \A f \in Streams : AtEof(f)

\* C18: when the loop of _run is left without an error the child has exited,
\* and either both pipes have been read to EOF and taken out of the pipe
\* set, or the last poll came back empty: the pipes still in the set held
\* nothing to read and had not given EOF.
LoopEndsAtEofOrEmptyPoll ==
  pc = "after_loop"
    => /\ p.exited
       /\ \A f \in Streams \ rpipes : AtEof(f)
       /\ rpipes # {}
            => /\ hist.poll.rfd = {}
               /\ state >= ReadyToSend
               /\ \A f \in rpipes : pipe[f].rd = Len(pipe[f].sent)

\* The child wrote, kept its pipes open and exited; the loop was left on an
\* empty poll with both pipes in the set.
WitnessLeftOnEmptyPoll ==
  /\ pc = "after_loop"
  /\ rpipes = Streams
  /\ \A f \in Streams : pipe[f].open
  /\ Len(stdout) > 0

\* The control-master case: the child has exited and stdout has given EOF,
\* stderr has not.
ControlMaster ==
  p.exited /\ "stdout" \notin rpipes /\ "stderr" \in rpipes

\* The loop of the run was left, by the break or by the timeout error.
LeftLoop == pc = "after_loop" \/ (pc = "handle" /\ outcome.error = "Timeout")

Passed(f) == IF f = "stdout" THEN stdout ELSE stderr
Held(f) == IF f = "stdout" THEN tmp_stdout ELSE tmp_stderr

\* The last position of f that was classified as prompt or success.
LastMarked(f) == CHOOSE i \in hist.marked[f] : \A j \in hist.marked[f] : j <= i

RaisedBy(f, l) ==
  {k \in DOMAIN NoFlags : _examine_output(f, l, sudoable, NoFlags).flags[k]}

\* The lines that the next iteration examines on f: the held remainder and
\* what is read, split.
NextLines(f) == splitlines(f, Held(f) \o Read(f))

Triggering(fl) ==
  IF fl.become_success THEN "become_success"
  ELSE IF fl.become_error THEN "become_error"
  ELSE IF fl.become_nopasswd_error THEN "become_nopasswd_error"
  ELSE IF fl.become_prompt THEN "become_prompt"
  ELSE "none"

\* C22: the flag that triggers a transition or an escalation error is false
\* after that step, and it alone is reset.  The flags start all false; the
\* step from awaiting_prompt leaves become_prompt false; after the escalation
\* step of an iteration the flags are those it found, less the one it acted
\* on.
FlagsOneShot ==
  /\ [](pc = "loop" /\ hist.poll = NoPoll => flags = NoFlags)
  /\ [][hist'.runs = hist.runs /\ state = states_index("awaiting_prompt")
          /\ state' > state => ~flags'.become_prompt]_vars
  /\ [](hist.esc.state = states_index("awaiting_escalation")
          => LET k == Triggering(hist.esc.flags)
             IN IF k = "none" THEN flags = hist.esc.flags
                ELSE ~flags[k] /\ flags = [hist.esc.flags EXCEPT ![k] = FALSE])

\* The prompt and then the success marker were acted on, and no flag is
\* left raised.
WitnessFlagsConsumed ==
  /\ Sent("become_pass")
  /\ hist.esc.state = states_index("awaiting_escalation")
  /\ hist.esc.flags.become_success
  /\ state >= ReadyToSend /\ flags = NoFlags

\* The step that ends a run (lines 565-580) whose child exited with 255 and
\* to which in_data had been passed.
Exit255WithData ==
  ~hist.finished /\ hist'.finished /\ in_data /\ p'.returncode = SSH_FAILURE

\* C23 as stated: with in_data, a child that exits with 255 makes _run raise
\* a connection failure.
ConnectionFailureOn255WithData ==
  [][Exit255WithData
       => outcome'.kind = "raise" /\ outcome'.error \in ConnectionFailures]_vars

\* C23: with in_data, a child that exits with 255 makes _run raise: the
\* ControlPersist error when stderr holds that complaint, the connection
\* failure "data could not be sent" otherwise.  exec_command called with
\* in_data never returns a tuple with the code 255, and it raises one of
\* these two errors only from the last attempt of its budget.
NoTuple255WithData ==
  /\ [][Exit255WithData
          => outcome' = IF controlpersisterror(Bytes("stderr", stderr))
                          THEN Raise("ControlPersist unsupported", <<>>, <<>>)
                        ELSE Raise("data could not be sent", <<>>, <<>>)]_vars
  /\ [](pc = "done" /\ api.name = "exec_command" /\ api.in_data
          => ~(result.kind = "return" /\ result.rc = SSH_FAILURE))
  /\ [](pc = "done" /\ api.name = "exec_command"
          /\ result.error \in {"data could not be sent", "ControlPersist unsupported"}
          => calls = remaining_tries /\ result = outcome)

\* Every attempt of a budget of two or more was made, the last one exited
\* with 255, and the connection failure was raised.
WitnessDataNotSentRaised ==
  /\ pc = "done" /\ hist.finished /\ in_data /\ p.returncode = SSH_FAILURE
  /\ hist.runs = calls /\ calls = remaining_tries /\ calls >= 2
  /\ result.error = "data could not be sent"

\* C24 as stated: one invocation of _run starts exactly one child, however
\* the pty setup goes.
OneChildPerRun == hist.runs > 0 => p.spawned = 1

AwaitingPrompt == states_index("awaiting_prompt")

\* A flag other than become_prompt is raised.
OtherFlagRaised ==
  flags.become_success \/ flags.become_error \/ flags.become_nopasswd_error

\* Among the lines that the next iteration examines there is a prompt.
PromptAmongNextLines ==
  \E f \in Select : \E i \in 1..Len(NextLines(f)) :
    check_password_prompt(Bytes(f, NextLines(f)[i]))

\* C25 as stated: once the success marker or an error line was seen in
\* awaiting_prompt, with no prompt before it, the state stays
\* awaiting_prompt to the end of the run.
StaysAwaitingPrompt ==
  [][hist'.runs = hist.runs /\ state = AwaitingPrompt /\ OtherFlagRaised
       => state' = AwaitingPrompt]_vars

\* C25: awaiting_prompt is left only by an iteration that examines a prompt
\* line.  Until then nothing is written to the child, and the run ends only
\* by the timeout error or after the child has exited (or, a prompt having
\* been seen, by the failed write of the password).  A success marker or an
\* error line seen in awaiting_prompt does not move the state, but its flag
\* stays raised and is acted on when a later prompt has moved the state to
\* awaiting_escalation.
OnlyPromptLeavesAwaitingPrompt ==
  /\ [][hist'.runs = hist.runs /\ state = AwaitingPrompt /\ state' # state
          => PromptAmongNextLines]_vars
  /\ [](hist.runs > 0 /\ state = AwaitingPrompt => stdin.written = <<>>)
  /\ [](hist.runs > 0 /\ state = AwaitingPrompt /\ pc \in {"handle", "done"}
          => \/ outcome.error = "Timeout"
             \/ hist.finished /\ p.exited
             \/ outcome.error = "IOError" /\ flags.become_prompt)
  /\ [][hist'.runs = hist.runs /\ state = AwaitingPrompt /\ state' = state
          => \A k \in DOMAIN NoFlags \ {"become_prompt"} : flags[k] => flags'[k]]_vars

\* The success marker came without a prompt; the run ended in
\* awaiting_prompt by the timeout error.
WitnessSuccessWithoutPrompt ==
  /\ state = AwaitingPrompt /\ flags.become_success
  /\ outcome.error = "Timeout"
  /\ stdin.written = <<>>

====
